---- MODULE Spec2Model ----
(***************************************************************************)
(* A model of compas_rbe's interface identification                        *)
(* (src/src/compas_rbe/interfaces/identify.py) and of the Assembly data    *)
(* structure it works on (src/src/compas_rbe/datastructures/assembly.py).  *)
(*                                                                         *)
(* Geometry.  Blocks are prisms of unit depth along the y axis, given by   *)
(* their cross-section in the (x, z) plane on the integer grid.  A face is *)
(* the quad swept by one cross-section segment P -> Q; the two end caps    *)
(* are not part of the meshes used here.  All arithmetic is exact: a frame *)
(* keeps the primitive integer direction d of P -> Q instead of the unit   *)
(* vector d / |d|, local coordinates are kept multiplied by |d|, and the   *)
(* comparisons with tmax and amin are made on squares.  tmax and amin are  *)
(* whole numbers of grid units; the tolerances stay below the block size.  *)
(***************************************************************************)
EXTENDS Integers, Sequences, FiniteSets, TLC

VARIABLES
    assembly,   \* the Assembly: [vertex, edge, blocks, max_int_key]
    calls,      \* history: the add_block / add_support calls made so far
    cfg,        \* keyword arguments of identify_interfaces
    order,      \* iteration order of assembly.vertices()
    nnbrs,      \* block_nnbrs: per index, the indices returned by the query
    pc,         \* "build", "idle", "loop", "done"
    ki, fi, ji, gi,   \* loop positions: base block, f0, neighbour, f1
    outcome,    \* "none", "ok", or the exception that ended the call
    pass,       \* number of identify_interfaces calls started
    mode,       \* "first", "again" (same assembly), "fresh" (xfunc rebuild)
    first,      \* snapshot taken when the first call ended
    last,       \* history: the last face pair tested and its verdict
    tested,     \* history: per base block, neighbours that passed n == k
    nwrites,    \* history: per edge, number of add_edge calls in this pass
    preedges    \* history: the edges the assembly held before the first call

vars == <<assembly, calls, cfg, order, nnbrs, pc, ki, fi, ji, gi, outcome,
          pass, mode, first, last, tested, nwrites, preedges>>

passvars == <<cfg, order, nnbrs, ki, fi, ji, gi, outcome, pass, mode, first,
              last, tested, nwrites, preedges>>

----------------------------------------------------------------------------
(* Small helpers *)

Abs(a) == IF a < 0 THEN -a ELSE a

Min(a, b) == IF a <= b THEN a ELSE b

Max(a, b) == IF a >= b THEN a ELSE b

RECURSIVE Gcd(_, _)
Gcd(a, b) == IF b = 0 THEN a ELSE Gcd(b, a % b)

Range(s) == {s[i] : i \in DOMAIN s}

None == "None"

EmptyAttr == [key \in {} |-> None]

\* dict.update: the entries of upd win over those of base
DictUpdate(base, upd) == upd @@ base

Perms(S) == {s \in [1..Cardinality(S) -> S] : Range(s) = S}

----------------------------------------------------------------------------
(* Block: a mesh.  verts is the cross-section vertex list, faces the list  *)
(* of faces, each a pair of vertex keys <<i, j>> (the segment P -> Q).      *)

BlockVertices(b) == DOMAIN b.verts

VertexCoordinates(b, key) == b.verts[key]

BlockFaces(b) == DOMAIN b.faces

FaceVertices(b, f) == b.faces[f]

\* Block.frame: origin = first vertex of the face, u along the first edge
Frame(b, f) ==
    LET P  == b.verts[b.faces[f][1]]
        Q  == b.verts[b.faces[f][2]]
        dx == Q[1] - P[1]
        dz == Q[2] - P[2]
        g  == Gcd(Abs(dx), Abs(dz))
    IN  [origin |-> P, uvw |-> <<dx \div g, dz \div g>>]

\* Block.centroid: the average of the vertices, in units of 1/60; the y
\* coordinate is the middle of the unit depth
Centroid(b) ==
    LET n == Len(b.verts)
        RECURSIVE Sum(_, _)
        Sum(i, c) == IF i > n THEN 0 ELSE b.verts[i][c] + Sum(i + 1, c)
    IN  <<Sum(1, 1) * (60 \div n), 30, Sum(1, 2) * (60 \div n)>>

----------------------------------------------------------------------------
(* Numeric kernels used by identify_interfaces *)

NormSq(frame) == frame.uvw[1] * frame.uvw[1] + frame.uvw[2] * frame.uvw[2]

\* solve(A.T, xyz - o): local <<r, t>> of world point X, times |d|
Solve(frame, X) ==
    LET ex == X[1] - frame.origin[1]
        ez == X[2] - frame.origin[2]
    IN  <<ex * frame.uvw[1] + ez * frame.uvw[2],
          ez * frame.uvw[1] - ex * frame.uvw[2]>>

\* shapely Polygon over the (r, s) coordinates: s spans the unit depth for
\* every face, so the polygon is the rectangle [lo, hi] x [0, 1]
Polygon(rst) ==
    [lo |-> Min(rst[1][1], rst[2][1]), hi |-> Max(rst[1][1], rst[2][1])]

PolygonArea(p) == p.hi - p.lo

\* shapely intersects: true also when the boundaries only touch
Intersects(p, q) == Max(p.lo, q.lo) <= Min(p.hi, q.hi)

Intersection(p, q) == [lo |-> Max(p.lo, q.lo), hi |-> Min(p.hi, q.hi)]

\* global_coords_numpy: o + r * d / |d| for local r, as a reduced fraction
\* <<x numerator, z numerator, denominator>>
GlobalCoords(frame, r) ==
    LET n  == NormSq(frame)
        nx == n * frame.origin[1] + r * frame.uvw[1]
        nz == n * frame.origin[2] + r * frame.uvw[2]
        g  == Gcd(Gcd(Abs(nx), Abs(nz)), n)
    IN  <<nx \div g, nz \div g, n \div g>>

----------------------------------------------------------------------------
(* Assembly (a compas Network with a block registry) *)

\* Network defaults {'x', 'y', 'z'} plus Assembly.__init__'s 'is_support'
default_vertex_attributes ==
    [key \in {"x", "y", "z", "is_support"} |->
        IF key = "is_support" THEN "False" ELSE "0"]

\* Assembly.__init__: note the misspelt 'niterface_size'
default_edge_attributes ==
    [key \in {"interface_points", "interface_type", "niterface_size",
              "interface_uvw", "interface_origin", "interface_forces"} |-> None]

\* Assembly.__init__
NewAssembly ==
    [vertex      |-> EmptyAttr,
     edge        |-> EmptyAttr,
     blocks      |-> EmptyAttr,
     max_int_key |-> -1]

\* Network.add_vertex(attr_dict=attr_dict, **kwattr) with key=None
add_vertex(a, attr_dict, kwattr) ==
    LET attr == DictUpdate(default_vertex_attributes,
                           DictUpdate(attr_dict, kwattr))
        key  == a.max_int_key + 1
    IN  [assembly |-> [a EXCEPT !.vertex = (key :> attr) @@ a.vertex,
                                !.max_int_key = key],
         key      |-> key]

\* Network.add_edge(u, v, attr_dict=attr_dict)
add_edge(a, u, v, attr_dict) ==
    LET attr == DictUpdate(default_edge_attributes, attr_dict)
        data == IF <<u, v>> \in DOMAIN a.edge THEN a.edge[<<u, v>>]
                ELSE EmptyAttr
    IN  [a EXCEPT !.edge = (<<u, v>> :> DictUpdate(data, attr)) @@ a.edge]

\* the x=x, y=y, z=z keyword arguments built from block.centroid()
CentroidKw(block) ==
    LET c == Centroid(block)
    IN  [key \in {"x", "y", "z"} |->
            IF key = "x" THEN c[1] ELSE IF key = "y" THEN c[2] ELSE c[3]]

\* The centroid passed inside attr_dict, where the caller's keywords win
add_block_centroid_first(a, block, attr_dict, kwattr) ==
    LET r == add_vertex(a, DictUpdate(CentroidKw(block),
                                      DictUpdate(attr_dict, kwattr)),
                        EmptyAttr)
    IN  [assembly |-> [r.assembly EXCEPT
                          !.blocks = (r.key :> block) @@ r.assembly.blocks],
         key      |-> r.key]

\* Assembly.add_block(block, attr_dict, **kwattr)
add_block(a, block, attr_dict, kwattr) ==
    LET attr == DictUpdate(attr_dict, kwattr)
        r    == add_vertex(a, attr, CentroidKw(block))
    IN  [assembly |-> [r.assembly EXCEPT
                          !.blocks = (r.key :> block) @@ r.assembly.blocks],
         key      |-> r.key]

\* Assembly.add_support(block): attr_dict and kwattr are not forwarded
add_support(a, block) ==
    LET r == add_vertex(a, EmptyAttr,
                        DictUpdate(CentroidKw(block), "is_support" :> "True"))
    IN  [assembly |-> [r.assembly EXCEPT
                          !.blocks = (r.key :> block) @@ r.assembly.blocks],
         key      |-> r.key]

\* for key in assembly.vertices()
Keys(a) == DOMAIN a.vertex

HasEdge(a, u, v) == <<u, v>> \in DOMAIN a.edge

----------------------------------------------------------------------------
(* Inputs: blocks, scenes and configurations *)

\* an axis-aligned box, counter-clockwise: bottom, right, top, left
Box(x0, z0, w, h) ==
    [verts |-> <<<<x0, z0>>, <<x0 + w, z0>>, <<x0 + w, z0 + h>>, <<x0, z0 + h>>>>,
     faces |-> <<<<1, 2>>, <<2, 3>>, <<3, 4>>, <<4, 1>>>>]

\* a block whose bottom face rises from height 5 to height 6
WedgeBlock ==
    [verts |-> <<<<0, 5>>, <<4, 6>>, <<4, 9>>, <<0, 9>>>>,
     faces |-> <<<<1, 2>>, <<2, 3>>, <<3, 4>>, <<4, 1>>>>]

\* a block whose bottom is meshed as two coplanar faces
SplitBlock ==
    [verts |-> <<<<0, 4>>, <<2, 4>>, <<4, 4>>, <<4, 8>>, <<0, 8>>>>,
     faces |-> <<<<1, 2>>, <<2, 3>>, <<3, 4>>, <<4, 5>>, <<5, 1>>>>]

\* assemblies of 4 x 4 blocks standing on the block [0, 4] x [0, 4]
Scenes ==
    { <<Box(0, 0, 4, 4), Box(3, 4, 4, 4)>>,                    \* offset stack
      <<Box(0, 0, 4, 4), Box(0, 5, 4, 4)>>,                    \* gap of 1
      <<Box(0, 0, 4, 4), WedgeBlock>>,                         \* tilted face
      <<Box(0, 0, 4, 4), SplitBlock>>,                         \* split face
      <<Box(0, 0, 4, 4), Box(0, 4, 4, 4), Box(0, 8, 4, 4)>> }  \* column

BlockPool == {Box(0, 0, 4, 4), WedgeBlock}

AttrDicts == {EmptyAttr, "is_support" :> "True", "x" :> 7}

KwAttrs == {EmptyAttr, "z" :> 7}

MaxBlocks == 3

\* values of the history variables before any call or face test
NoTest == [k |-> -1, f0 |-> 0, n |-> -1, f1 |-> 0, verdict |-> "none"]

NoSnapshot == [edge |-> EmptyAttr, outcome |-> "none", nbrkeys |-> <<>>]

----------------------------------------------------------------------------
(* Building an assembly *)

InitBuild ==
    /\ assembly = NewAssembly
    /\ calls = <<>>
    /\ pc = "build"
    /\ cfg = None /\ order = <<>> /\ nnbrs = <<>>
    /\ ki = 0 /\ fi = 0 /\ ji = 0 /\ gi = 0
    /\ outcome = "none" /\ pass = 0 /\ mode = "first" /\ first = NoSnapshot
    /\ last = NoTest /\ tested = <<>> /\ nwrites = <<>> /\ preedges = {}

AddBlock ==
    /\ pc = "build"
    /\ Len(calls) < MaxBlocks
    /\ \E block \in BlockPool, attr_dict \in AttrDicts, kwattr \in KwAttrs :
          LET r == add_block(assembly, block, attr_dict, kwattr)
          IN  /\ assembly' = r.assembly
              /\ calls' = Append(calls, [op |-> "add_block", key |-> r.key,
                                         block |-> block,
                                         attr |-> DictUpdate(attr_dict, kwattr)])
    /\ UNCHANGED <<pc, passvars>>

AddSupport ==
    /\ pc = "build"
    /\ Len(calls) < MaxBlocks
    /\ \E block \in BlockPool :
          LET r == add_support(assembly, block)
          IN  /\ assembly' = r.assembly
              /\ calls' = Append(calls, [op |-> "add_support", key |-> r.key,
                                         block |-> block, attr |-> EmptyAttr])
    /\ UNCHANGED <<pc, passvars>>

NextBuild == AddBlock \/ AddSupport

SpecBuild == InitBuild /\ [][NextBuild]_vars

----------------------------------------------------------------------------
(* identify_interfaces: set-up (lines 102-108) *)

MaxNmax == 3

MaxTmax == 2

MaxAmin == 2

DefaultCfg == [nmax |-> 2, tmax |-> 1, amin |-> 1, lmin |-> 1, face_face |-> TRUE]

\* valid configurations, and the default one with one argument made invalid
\* or with the face-face test switched off
Configs ==
    [nmax : 1..MaxNmax, tmax : 0..MaxTmax, amin : 0..MaxAmin,
     lmin : {1}, face_face : {TRUE}]
    \cup {[DefaultCfg EXCEPT !.nmax = 0], [DefaultCfg EXCEPT !.nmax = -1],
          [DefaultCfg EXCEPT !.tmax = -1], [DefaultCfg EXCEPT !.amin = -1],
          [DefaultCfg EXCEPT !.lmin = -1], [DefaultCfg EXCEPT !.face_face = FALSE]}

\* assembly.vertex_coordinates(key)
vertex_coordinates(a, key) ==
    <<a.vertex[key]["x"], a.vertex[key]["y"], a.vertex[key]["z"]>>

Dist2(p, q) ==
    (p[1] - q[1]) * (p[1] - q[1]) + (p[2] - q[2]) * (p[2] - q[2])
        + (p[3] - q[3]) * (p[3] - q[3])

\* tree.query(root, nmax): the nmax nearest points of the cloud, nearest
\* first; the set holds one answer per way of breaking distance ties
TreeQuery(cloud, root, nmax) ==
    {s \in [1..nmax -> DOMAIN cloud] :
        /\ \A a, b \in 1..nmax : a < b =>
              /\ s[a] # s[b]
              /\ Dist2(cloud[s[a]], root) <= Dist2(cloud[s[b]], root)
        /\ \A c \in DOMAIN cloud \ Range(s) : \A a \in 1..nmax :
              Dist2(cloud[s[a]], root) <= Dist2(cloud[c], root)}

\* one answer per root, for the per-root answer sets Q[i]
PerRoot(Q) ==
    {nn \in [DOMAIN Q -> UNION Range(Q)] : \A i \in DOMAIN Q : nn[i] \in Q[i]}

\* A query that leaves the root itself out of its answer
find_nearest_neighbours_without_self(cloud, nmax) ==
    PerRoot([i \in DOMAIN cloud |->
        {SelectSeq(s, LAMBDA x : x # i) :
            s \in {t \in TreeQuery(cloud, cloud[i], Min(nmax + 1, Len(cloud))) :
                      i \in Range(t)}}])

\* _find_nearest_neighbours(cloud, nmax): per root, the index list
find_nearest_neighbours(cloud, nmax) ==
    PerRoot([i \in DOMAIN cloud |-> TreeQuery(cloud, cloud[i], nmax)])

\* block_cloud, in the order of assembly.vertices()
BlockCloud(a, ord) == [i \in DOMAIN ord |-> vertex_coordinates(a, ord[i])]

\* key_index
KeyIndex(ord, key) == CHOOSE i \in DOMAIN ord : ord[i] = key

\* nmax = min(nmax, len(blocks))
ClampedNmax(a, c) == Min(c.nmax, Cardinality(Keys(a)))

\* The outcome of lines 102-108 and of entering the loop, for the chosen
\* answer nn of the neighbour query
Setup(a, c, ord, nn) ==
    /\ cfg' = c
    /\ order' = ord
    /\ pass' = pass + 1
    /\ last' = NoTest
    /\ nwrites' = EmptyAttr
    /\ tested' = [key \in Keys(a) |-> {}]
    /\ ki' = 1 /\ fi' = 1 /\ ji' = 1 /\ gi' = 1
    /\ IF ClampedNmax(a, c) <= 0
       THEN /\ nnbrs' = <<>>
            /\ pc' = "done"
            /\ outcome' = "ValueError"
       ELSE /\ nnbrs' = nn
            /\ IF c.face_face
               THEN pc' = "loop" /\ outcome' = "none"
               ELSE pc' = "done" /\ outcome' = "ok"

\* the answers the query can give (a placeholder when the query raises)
QueryAnswers(a, c, ord) ==
    IF ClampedNmax(a, c) <= 0 THEN {<<>>}
    ELSE find_nearest_neighbours(BlockCloud(a, ord), ClampedNmax(a, c))

----------------------------------------------------------------------------
(* identify_interfaces: the loops (lines 134-208) *)

\* fabs(t) > tmax, for t given times |d| with |d|^2 = nsq
TooFar(t, nsq, tmax) == tmax < 0 \/ t * t > tmax * tmax * nsq

\* any(fabs(t) > tmax for r, s, t in rst1)
NotCoplanarAll(rst1, nsq, tmax) == \A i \in DOMAIN rst1 : TooFar(rst1[i][2], nsq, tmax)

NotCoplanar(rst1, nsq, tmax) == \E i \in DOMAIN rst1 : TooFar(rst1[i][2], nsq, tmax)

\* area >= amin, for a non-negative area given times |d|
AreaAcceptedStrict(area, nsq, amin) == amin < 0 \/ area * area > amin * amin * nsq

AreaAccepted(area, nsq, amin) == amin <= 0 \/ area * area >= amin * amin * nsq

\* the loop variables at the current position
BaseKey == order[ki]

BaseBlock == assembly.blocks[BaseKey]

NbrKey == order[nnbrs[ki][ji]]

NbrBlock == assembly.blocks[NbrKey]

\* rst0 and p0 (lines 151-153)
FacePolygon(block, f, frame) ==
    Polygon([i \in 1..2 |-> Solve(frame, VertexCoordinates(block, FaceVertices(block, f)[i]))])

\* rst1 (lines 169-175)
Rst1(frame, nbr, f1) ==
    [i \in 1..2 |-> Solve(frame, VertexCoordinates(nbr, FaceVertices(nbr, f1)[i]))]

\* What lines 175-208 do with face f1 of nbr against face f0 of block
Verdict(block, f0, nbr, f1, c) ==
    LET frame == Frame(block, f0)
        nsq   == NormSq(frame)
        p0    == FacePolygon(block, f0, frame)
        rst1  == Rst1(frame, nbr, f1)
        p1    == Polygon(rst1)
        area  == PolygonArea(Intersection(p0, p1))
    IN  IF NotCoplanar(rst1, nsq, c.tmax) THEN "not_coplanar"
        ELSE IF PolygonArea(p1) = 0 THEN "degenerate"
        ELSE IF ~Intersects(p0, p1) THEN "disjoint"
        ELSE IF ~AreaAccepted(area, nsq, c.amin) THEN "too_small"
        ELSE IF area = 0 THEN "AttributeError"
        ELSE "accepted"

\* the attr dictionary of lines 197-206
InterfaceAttr(block, f0, nbr, f1) ==
    LET frame == Frame(block, f0)
        inter == Intersection(FacePolygon(block, f0, frame),
                              Polygon(Rst1(frame, nbr, f1)))
    IN  [interface_type   |-> "face_face",
         interface_size   |-> [num |-> PolygonArea(inter), nsq |-> NormSq(frame)],
         interface_points |-> <<GlobalCoords(frame, inter.lo),
                                GlobalCoords(frame, inter.hi)>>,
         interface_origin |-> frame.origin,
         interface_uvw    |-> frame.uvw]

\* if n == k (lines 158-159)
IsSelf == NbrKey = BaseKey

\* the duplicate checks, with the test of the reverse direction left out
AlreadyConnectedForward == HasEdge(assembly, BaseKey, NbrKey)

\* the duplicate checks, with the test of the forward direction left out
AlreadyConnectedReverse == HasEdge(assembly, NbrKey, BaseKey)

\* the duplicate checks, also skipping every neighbour that has already been
\* a base block
AlreadyProcessed ==
    \/ HasEdge(assembly, BaseKey, NbrKey)
    \/ HasEdge(assembly, NbrKey, BaseKey)
    \/ nnbrs[ki][ji] < ki

\* the duplicate checks of lines 161-165
AlreadyConnected ==
    HasEdge(assembly, BaseKey, NbrKey) \/ HasEdge(assembly, NbrKey, BaseKey)

\* moves the loop position on; nextFace: the f1 loop is still running
Advance(nextFace) ==
    IF nextFace /\ gi < Len(NbrBlock.faces)
    THEN /\ gi' = gi + 1
         /\ UNCHANGED <<ki, fi, ji, pc, outcome>>
    ELSE IF ji < Len(nnbrs[ki])
    THEN /\ ji' = ji + 1 /\ gi' = 1
         /\ UNCHANGED <<ki, fi, pc, outcome>>
    ELSE IF fi < Len(BaseBlock.faces)
    THEN /\ fi' = fi + 1 /\ ji' = 1 /\ gi' = 1
         /\ UNCHANGED <<ki, pc, outcome>>
    ELSE IF ki < Len(order)
    THEN /\ ki' = ki + 1 /\ fi' = 1 /\ ji' = 1 /\ gi' = 1
         /\ UNCHANGED <<pc, outcome>>
    ELSE /\ pc' = "done" /\ outcome' = "ok"
         /\ UNCHANGED <<ki, fi, ji, gi>>

Tested == [tested EXCEPT ![BaseKey] = @ \cup {NbrKey}]

\* lines 158-159
SkipSelf ==
    /\ pc = "loop" /\ gi = 1
    /\ IsSelf
    /\ Advance(FALSE)
    /\ UNCHANGED <<assembly, calls, cfg, order, nnbrs, pass, mode, first,
                   last, tested, nwrites, preedges>>

\* lines 161-165
SkipConnected ==
    /\ pc = "loop" /\ gi = 1
    /\ ~IsSelf
    /\ AlreadyConnected
    /\ Advance(FALSE)
    /\ tested' = Tested
    /\ UNCHANGED <<assembly, calls, cfg, order, nnbrs, pass, mode, first,
                   last, nwrites, preedges>>

\* one iteration of the f1 loop (lines 173-208) ending with verdict v
FaceTest(v) ==
    /\ pc = "loop"
    /\ gi > 1 \/ (~IsSelf /\ ~AlreadyConnected)
    /\ Verdict(BaseBlock, fi, NbrBlock, gi, cfg) = v
    /\ last' = [k |-> BaseKey, f0 |-> fi, n |-> NbrKey, f1 |-> gi, verdict |-> v]
    /\ tested' = Tested
    /\ UNCHANGED <<calls, cfg, order, nnbrs, pass, mode, first, preedges>>

FaceNotCoplanar ==
    /\ FaceTest("not_coplanar")
    /\ Advance(TRUE)
    /\ UNCHANGED <<assembly, nwrites>>

FaceDegenerate ==
    /\ FaceTest("degenerate")
    /\ Advance(TRUE)
    /\ UNCHANGED <<assembly, nwrites>>

FaceDisjoint ==
    /\ FaceTest("disjoint")
    /\ Advance(TRUE)
    /\ UNCHANGED <<assembly, nwrites>>

FaceTooSmall ==
    /\ FaceTest("too_small")
    /\ Advance(TRUE)
    /\ UNCHANGED <<assembly, nwrites>>

\* intersection.exterior of a zero-area intersection (line 197)
FaceRaises ==
    /\ FaceTest("AttributeError")
    /\ pc' = "done" /\ outcome' = "AttributeError"
    /\ UNCHANGED <<assembly, nwrites, ki, fi, ji, gi>>

\* lines 197-208
FaceAccepted ==
    /\ FaceTest("accepted")
    /\ assembly' = add_edge(assembly, BaseKey, NbrKey,
                            InterfaceAttr(BaseBlock, fi, NbrBlock, gi))
    /\ nwrites' = (<<BaseKey, NbrKey>> :>
                      (IF <<BaseKey, NbrKey>> \in DOMAIN nwrites
                       THEN nwrites[<<BaseKey, NbrKey>>] + 1 ELSE 1)) @@ nwrites
    /\ Advance(TRUE)

----------------------------------------------------------------------------
(* Calls of identify_interfaces *)

\* An assembly built from a scene: the lowest block is a support
RECURSIVE BuildScene(_, _)
BuildScene(scene, n) ==
    IF n = 0 THEN [assembly |-> NewAssembly, calls |-> <<>>]
    ELSE LET b == BuildScene(scene, n - 1)
             r == IF n = 1 THEN add_support(b.assembly, scene[n])
                  ELSE add_block(b.assembly, scene[n], EmptyAttr, EmptyAttr)
         IN  [assembly |-> r.assembly,
              calls    |-> Append(b.calls,
                              [op |-> IF n = 1 THEN "add_support" ELSE "add_block",
                               key |-> r.key, block |-> scene[n],
                               attr |-> EmptyAttr])]

\* edges the caller may have put in before identification: none, or one
PreEdges(a) == {{}} \cup {{<<u, v>>} : u, v \in Keys(a)}

RECURSIVE WithEdges(_, _)
WithEdges(a, es) ==
    IF es = {} THEN a
    ELSE LET e == CHOOSE x \in es : TRUE
         IN  WithEdges(add_edge(a, e[1], e[2], EmptyAttr), es \ {e})

\* Network.vertices() iterates the vertex dictionary in insertion order
Init ==
    \E scene \in Scenes :
        LET b == BuildScene(scene, Len(scene))
        IN  \E pre \in {es \in PreEdges(b.assembly) : \A e \in es : e[1] # e[2]} :
                /\ assembly = WithEdges(b.assembly, pre)
                /\ preedges = pre
                /\ calls = b.calls
                /\ order = [i \in 1..Len(scene) |-> i - 1]
                /\ pc = "idle"
                /\ cfg = None /\ nnbrs = <<>>
                /\ ki = 0 /\ fi = 0 /\ ji = 0 /\ gi = 0
                /\ outcome = "none" /\ pass = 0 /\ mode = "first" /\ first = NoSnapshot
                /\ last = NoTest /\ tested = <<>> /\ nwrites = <<>>

\* per block key, the keys its query returned
NbrKeys == IF nnbrs = <<>> THEN <<>>
           ELSE [key \in Keys(assembly) |->
                    {order[j] : j \in Range(nnbrs[KeyIndex(order, key)])}]

Snapshot == [edge |-> assembly.edge, outcome |-> outcome, nbrkeys |-> NbrKeys]

\* identify_interfaces(assembly, **kwargs), first call
Identify ==
    /\ pc = "idle"
    /\ \E c \in Configs : \E nn \in QueryAnswers(assembly, c, order) :
          Setup(assembly, c, order, nn)
    /\ UNCHANGED <<assembly, calls, mode, first, preedges>>

\* a second call on the same assembly with the same arguments; the query
\* is deterministic, so the same cloud gives the same neighbours
IdentifyAgain ==
    /\ pc = "done" /\ mode = "first"
    /\ mode' = "again"
    /\ first' = Snapshot
    /\ Setup(assembly, cfg, order, nnbrs)
    /\ UNCHANGED <<assembly, calls, preedges>>

\* identify_interfaces_xfunc on the data the assembly was built from: a new
\* Assembly with the same blocks and the edges of the data, whose vertices
\* may come in any order
IdentifyFresh ==
    /\ pc = "done" /\ mode = "first"
    /\ mode' = "fresh"
    /\ first' = Snapshot
    /\ LET a == WithEdges([assembly EXCEPT !.edge = EmptyAttr], preedges)
       IN  /\ assembly' = a
           /\ \E ord \in Perms(Keys(a)) : \E nn \in QueryAnswers(a, cfg, ord) :
                 Setup(a, cfg, ord, nn)
    /\ UNCHANGED <<calls, preedges>>

Next ==
    \/ Identify
    \/ IdentifyAgain
    \/ IdentifyFresh
    \/ SkipSelf
    \/ SkipConnected
    \/ FaceNotCoplanar
    \/ FaceDegenerate
    \/ FaceDisjoint
    \/ FaceTooSmall
    \/ FaceRaises
    \/ FaceAccepted

Spec == Init /\ [][Next]_vars

----------------------------------------------------------------------------
(* Properties *)

Identifying == pc \in {"loop", "done"}

InvalidCfg == cfg.nmax <= 0 \/ cfg.tmax < 0 \/ cfg.amin < 0 \/ cfg.lmin < 0

NonIdentityOrder == \E i \in DOMAIN order : order[i] # i - 1

\* C1: from an assembly with no pair connected in both directions, at every
\* point during and after identify_interfaces no two blocks are connected
\* in both directions and no block is connected to itself, for every
\* iteration order of the base blocks.
C1_AtMostOneEdge ==
    pc # "build" =>
        \A u, v \in Keys(assembly) :
            ~(HasEdge(assembly, u, v) /\ HasEdge(assembly, v, u))

\* a pass in a permuted order has ended, and in it a neighbour was skipped
\* because the edge had been written from the other side
C1_Witness ==
    /\ pc = "done" /\ outcome = "ok" /\ mode = "fresh" /\ NonIdentityOrder
    /\ ~InvalidCfg
    /\ \E u, v \in Keys(assembly) :
          /\ <<u, v>> \in DOMAIN nwrites
          /\ KeyIndex(order, u) < KeyIndex(order, v)
          /\ u \in tested[v]

\* C3: a second call with the same configuration, on an assembly that had
\* no edges before the first call and keeps the edges of the first (which
\* ran to its end), calls add_edge for no pair and leaves every edge and
\* its attributes as the first call left them.
C3_Idempotent ==
    (mode = "again" /\ first.outcome = "ok" /\ preedges = {}) =>
        /\ assembly.edge = first.edge
        /\ nwrites = EmptyAttr

\* the second call has ended on an assembly that holds interfaces
C3_Witness ==
    /\ mode = "again" /\ pc = "done" /\ outcome = "ok"
    /\ first.outcome = "ok" /\ preedges = {} /\ ~InvalidCfg
    /\ DOMAIN assembly.edge # {}
    /\ last.verdict # "none"

\* C9: within one pass an edge, once written, is not written again.
C9_WrittenOnce ==
    Identifying => \A e \in DOMAIN nwrites : nwrites[e] = 1

FiveFields ==
    {"interface_type", "interface_size", "interface_points",
     "interface_origin", "interface_uvw"}

\* C5: every edge written by identify_interfaces carries exactly the five
\* fields interface_type, interface_size, interface_points,
\* interface_origin and interface_uvw, with type 'face_face' and the
\* origin and uvw of a frame of the base block.
C5_ExactlyFiveFields ==
    Identifying =>
        \A e \in DOMAIN nwrites :
            /\ DOMAIN assembly.edge[e] = FiveFields
            /\ assembly.edge[e]["interface_type"] = "face_face"
            /\ \E f0 \in BlockFaces(assembly.blocks[e[1]]) :
                  LET frame == Frame(assembly.blocks[e[1]], f0)
                  IN  /\ assembly.edge[e]["interface_origin"] = frame.origin
                      /\ assembly.edge[e]["interface_uvw"] = frame.uvw

\* C7: a call with an invalid configuration ends in a ConfigurationError
\* before any face pair is tested and leaves the edges as they were.
C7_ConfigurationError ==
    (pc = "done" /\ InvalidCfg) =>
        /\ outcome = "ConfigurationError"
        /\ last.verdict = "none"
        /\ DOMAIN assembly.edge = preedges

\* the face pair of the last test, projected into the frame of f0
LastFrame == Frame(assembly.blocks[last.k], last.f0)

LastRst1 == Rst1(LastFrame, assembly.blocks[last.n], last.f1)

LastP0 == FacePolygon(assembly.blocks[last.k], last.f0, LastFrame)

LastP1 == Polygon(LastRst1)

LastOverlap == PolygonArea(Intersection(LastP0, LastP1))

\* |t| compared with tmax, and an area compared with amin, in exact terms
DevAbove(t, nsq, tmax) == tmax < 0 \/ t * t > tmax * tmax * nsq

DevEquals(t, nsq, tmax) == tmax >= 0 /\ t * t = tmax * tmax * nsq

AreaAtLeast(num, nsq, amin) == amin <= 0 \/ num * num >= amin * amin * nsq

AreaEquals(num, nsq, amin) == amin >= 0 /\ num * num = amin * amin * nsq

LastCoplanar ==
    \A i \in 1..2 : ~DevAbove(LastRst1[i][2], NormSq(LastFrame), cfg.tmax)

\* the last face pair passed the coplanarity and non-degeneracy filters and
\* the two polygons intersect
LastPassesFilters ==
    LastCoplanar /\ PolygonArea(LastP1) # 0 /\ Intersects(LastP0, LastP1)

\* some face pair of blocks k and n, with k as base, overlaps by amin or more
SomeOverlapAtLeast(k, n, amin) ==
    \E f0 \in BlockFaces(assembly.blocks[k]), f1 \in BlockFaces(assembly.blocks[n]) :
        LET frame == Frame(assembly.blocks[k], f0)
            p0    == FacePolygon(assembly.blocks[k], f0, frame)
            p1    == Polygon(Rst1(frame, assembly.blocks[n], f1))
        IN  /\ Intersects(p0, p1)
            /\ AreaAtLeast(PolygonArea(Intersection(p0, p1)), NormSq(frame), amin)

EdgeSizesAtLeastAmin ==
    \A e \in DOMAIN nwrites :
        /\ AreaAtLeast(assembly.edge[e]["interface_size"].num,
                       assembly.edge[e]["interface_size"].nsq, cfg.amin)
        /\ SomeOverlapAtLeast(e[1], e[2], cfg.amin)

LastWritten ==
    /\ last.verdict = "accepted"
    /\ <<last.k, last.n>> \in DOMAIN assembly.edge
    /\ assembly.edge[<<last.k, last.n>>]["interface_size"]
          = [num |-> LastOverlap, nsq |-> NormSq(LastFrame)]

C4_MaxDistanceInclusive ==
    (Identifying /\ last.verdict # "none") =>
        (last.verdict = "not_coplanar" <=> ~LastCoplanar)

\* a face whose largest vertex distance is exactly tmax > 0 gave an interface
C4_Witness ==
    /\ Identifying /\ cfg.tmax > 0
    /\ last.verdict = "accepted"
    /\ \E i \in 1..2 : DevEquals(LastRst1[i][2], NormSq(LastFrame), cfg.tmax)

\* C4 (original statement): a neighbour face whose smallest vertex distance from
\* the plane of the base face is exactly tmax is accepted as coplanar.
C4_Original ==
    (/\ Identifying /\ ~InvalidCfg /\ last.verdict # "none"
     /\ \E i \in 1..2 :
           /\ DevEquals(LastRst1[i][2], NormSq(LastFrame), cfg.tmax)
           /\ \A j \in 1..2 : LastRst1[j][2] * LastRst1[j][2]
                                 >= LastRst1[i][2] * LastRst1[i][2])
        => last.verdict # "not_coplanar"

NumBlocks == Cardinality(Keys(assembly))

KeyDist2(u, v) ==
    Dist2(vertex_coordinates(assembly, u), vertex_coordinates(assembly, v))

DistinctCentroids ==
    \A u, v \in Keys(assembly) : u # v => KeyDist2(u, v) > 0

FullPass == pc = "done" /\ outcome = "ok" /\ cfg.face_face

\* C6 (amended statement): with pairwise distinct centroids the query returns the
\* base block itself among its min(nmax, number of blocks) answers, so the
\* blocks tested against k are the min(nmax, number of blocks) - 1 nearest
\* other blocks; with nmax = 1 no other block is tested.
C6_NearestOthers ==
    (FullPass /\ DistinctCentroids) =>
        \A k \in Keys(assembly) :
            /\ k \notin tested[k]
            /\ Cardinality(tested[k]) = Min(cfg.nmax, NumBlocks) - 1
            /\ \A n \in tested[k] : \A m \in Keys(assembly) \ (tested[k] \cup {k}) :
                  KeyDist2(k, n) <= KeyDist2(k, m)

\* a pass over three blocks with nmax = 2 has tested one neighbour per block
C6_Witness ==
    /\ FullPass /\ DistinctCentroids /\ ~InvalidCfg
    /\ NumBlocks = 3 /\ cfg.nmax = 2
    /\ \A k \in Keys(assembly) : Cardinality(tested[k]) = 1

\* C6 (original statement): when the assembly has at least nmax blocks besides k,
\* exactly nmax blocks other than k are tested against k.
C6_Original ==
    FullPass =>
        \A k \in Keys(assembly) :
            NumBlocks - 1 >= cfg.nmax => Cardinality(tested[k]) = cfg.nmax

Unordered(edges) == {{e[1], e[2]} : e \in DOMAIN edges}

Bundles(edges) == {[key \in FiveFields |-> edges[e][key]] : e \in DOMAIN edges}

\* two full passes over the same data, the second in any order, with the
\* same answers of the neighbour query
TwoOrders ==
    /\ mode = "fresh" /\ FullPass /\ first.outcome = "ok"
    /\ preedges = {}
    /\ NbrKeys = first.nbrkeys

C8_RegistryInSync ==
    pc = "build" =>
        /\ DOMAIN assembly.blocks = DOMAIN assembly.vertex
        /\ DOMAIN assembly.vertex = {calls[i].key : i \in DOMAIN calls}
        /\ \A i, j \in DOMAIN calls : i # j => calls[i].key # calls[j].key
        /\ \A i \in DOMAIN calls :
              LET c    == calls[i]
                  node == assembly.vertex[c.key]
              IN  /\ assembly.blocks[c.key] = c.block
                  /\ <<node["x"], node["y"], node["z"]>> = Centroid(c.block)
                  /\ node["is_support"] =
                        IF c.op = "add_support" THEN "True"
                        ELSE IF "is_support" \in DOMAIN c.attr
                        THEN c.attr["is_support"] ELSE "False"

\* a support and a block added with an x attribute of its own
C8_Witness ==
    /\ pc = "build"
    /\ \E i, j \in DOMAIN calls :
          /\ calls[i].op = "add_support"
          /\ calls[j].op = "add_block" /\ "x" \in DOMAIN calls[j].attr

\* C8 (original statement): is_support is true exactly for the nodes added with
\* add_support.
C8_Original ==
    pc = "build" =>
        \A i \in DOMAIN calls :
            (assembly.vertex[calls[i].key]["is_support"] = "True")
                <=> (calls[i].op = "add_support")

====
